---- MODULE Spec2Model ----
(***************************************************************************)
(* Matching strategies of pdf_ounds_matching (backend/app):                *)
(*   matching_strategies.py  ExactMatchingStrategy, FuzzyMatchingStrategy, *)
(*                           ContextualMatchingStrategy                    *)
(*   strategy_factory.py     MatchingStrategyFactory                       *)
(*                                                                         *)
(* A Python str is a sequence of one-character strings.  A float score is  *)
(* an exact fraction [num, den] in lowest terms: rapidfuzz computes        *)
(* (1.0 - dist / (len1 + len2)) * 100 in double precision, and for string  *)
(* lengths below 40 that double compares with each threshold used here     *)
(* (50, 70, 80, 100, 101) exactly as the fraction does, and equals 100.0   *)
(* exactly when dist = 0.                                                  *)
(***************************************************************************)
EXTENDS Integers, Sequences, FiniteSets, TLC

VARIABLES
    strategy,       \* the strategy instance: its class and its attributes
    text_bounds,    \* the caller's list of TextBound objects
    entity,         \* the entity of the last match call
    outcome,        \* what the last match call did: returned a list, or raised
    first,          \* the first match call made on the instance, and its outcome
    strategy_type,  \* create_strategy's first argument, as given
    kwargs,         \* create_strategy's keyword arguments
    created,        \* what create_strategy did: returned an instance, or raised
    all_strategies, \* what get_all_strategies did: the dict it returned
    calls,          \* the match calls in progress on a shared instance
    pdf_storage,    \* main.py's pdf_storage: file_id -> path of the temporary file
    disk,           \* the temporary files that exist, and whether each parses as a PDF
    cleaned,        \* the file_ids whose cleanup_pdf has succeeded
    response        \* the answer to the last request

\* the variables of the strategies and of the factory
coreVars == <<strategy, text_bounds, entity, outcome, first, strategy_type, kwargs, created>>

\* the variables of get_all_strategies, of concurrent calls and of the API
restVars == <<all_strategies, calls, pdf_storage, disk, cleaned, response>>

vars == <<coreVars, restVars>>

-----------------------------------------------------------------------------
(* Bounds of the model *)

\* longest token list handed to match
MaxTokens == 3

-----------------------------------------------------------------------------
(* str operations *)

Upper == <<"A", "B", "C", "E", "F", "L", "N", "O", "T", "U", "X", "Y", "Z">>

LowerOf == <<"a", "b", "c", "e", "f", "l", "n", "o", "t", "u", "x", "y", "z">>

\* str.lower() on one character
LowerChar(c) ==
    IF \E i \in DOMAIN Upper : Upper[i] = c
    THEN LowerOf[CHOOSE i \in DOMAIN Upper : Upper[i] = c]
    ELSE c

\* str.lower()
Lower(s) == [i \in DOMAIN s |-> LowerChar(s[i])]

IsSpace(c) == c = " "

RECURSIVE SplitFrom(_, _, _)
\* words of s from position i on; cur is the word being read
SplitFrom(s, i, cur) ==
    IF i > Len(s)
    THEN IF cur = <<>> THEN <<>> ELSE <<cur>>
    ELSE IF IsSpace(s[i])
         THEN IF cur = <<>>
              THEN SplitFrom(s, i + 1, <<>>)
              ELSE <<cur>> \o SplitFrom(s, i + 1, <<>>)
         ELSE SplitFrom(s, i + 1, Append(cur, s[i]))

\* str.split() with no separator: runs of whitespace separate, none are kept
Split(s) == SplitFrom(s, 1, <<>>)

RECURSIVE Join(_)
\* " ".join(words)
Join(words) ==
    IF words = <<>> THEN <<>>
    ELSE IF Len(words) = 1 THEN words[1]
    ELSE words[1] \o <<" ">> \o Join(Tail(words))

-----------------------------------------------------------------------------
(* rapidfuzz.fuzz.ratio: the normalized Indel similarity, scaled to 0..100 *)

Max2(a, b) == IF a >= b THEN a ELSE b

Min2(a, b) == IF a <= b THEN a ELSE b

RECURSIVE LcsLen(_, _)
\* length of a longest common subsequence
LcsLen(s, t) ==
    IF s = <<>> \/ t = <<>> THEN 0
    ELSE IF Head(s) = Head(t)
         THEN 1 + LcsLen(Tail(s), Tail(t))
         ELSE Max2(LcsLen(Tail(s), t), LcsLen(s, Tail(t)))

\* Indel distance: insertions and deletions turning s into t
IndelDistance(s, t) == Len(s) + Len(t) - 2 * LcsLen(s, t)

RECURSIVE Gcd(_, _)
Gcd(a, b) == IF b = 0 THEN a ELSE Gcd(b, a % b)

\* the fraction n / d in lowest terms (d > 0)
Frac(n, d) == [num |-> n \div Gcd(n, d), den |-> d \div Gcd(n, d)]

\* the float 100.0
Hundred == Frac(100, 1)

\* whether s occurs in t as a contiguous run
OccursIn(s, t) ==
    \E i \in 0..(Len(t) - Len(s)) : \A j \in 1..Len(s) : t[i + j] = s[j]

\* fuzz.partial_ratio in place of fuzz.ratio: 100 when the shorter string
\* occurs in the longer one
FuzzPartialRatio(s, t) ==
    IF OccursIn(s, t) \/ OccursIn(t, s) THEN [num |-> 100, den |-> 1]
    ELSE LET maximum == Len(s) + Len(t)
             dist == IndelDistance(s, t)
         IN  Frac(100 * (maximum - dist), maximum)

\* fuzz.ratio(s, t): (1 - dist / (len(s) + len(t))) * 100, and 100 for two
\* empty strings (normalized distance 0 when the maximum is 0)
FuzzRatio(s, t) ==
    LET maximum == Len(s) + Len(t)
        dist == IndelDistance(s, t)
    IN  IF maximum = 0 THEN Hundred
        ELSE Frac(100 * (maximum - dist), maximum)

\* confidence >= threshold, threshold a whole number
AtLeast(confidence, threshold) == confidence.num >= threshold * confidence.den

\* confidence <= bound
AtMost(confidence, bound) == confidence.num <= bound * confidence.den

-----------------------------------------------------------------------------
(* TextBound and MatchResult *)

\* TextBound(text, x0, y0, x1, y1, page)
TextBound(text, x0, y0, x1, y1, page) ==
    [text |-> text, x0 |-> x0, y0 |-> y0, x1 |-> x1, y1 |-> y1, page |-> page]

\* the context of a result that has none (context=None)
NoContext == <<"None">>

\* MatchResult(text_bound, confidence, context)
MatchResult(text_bound, confidence, context) ==
    [text_bound |-> text_bound, confidence |-> confidence, context |-> context]

\* a match call that returned `results`
Returned(results) == [status |-> "returned", results |-> results]

\* a match call that raised IndexError
Raised == [status |-> "IndexError", results |-> <<>>]

\* no match call made yet
NoCall == [status |-> "none", results |-> <<>>]

-----------------------------------------------------------------------------
(* The strategy instances *)

\* ExactMatchingStrategy(): no attributes
ExactMatchingStrategy == [class |-> "ExactMatchingStrategy"]

\* FuzzyMatchingStrategy.__init__
FuzzyMatchingStrategy(threshold) ==
    [class |-> "FuzzyMatchingStrategy", threshold |-> threshold]

\* ContextualMatchingStrategy.__init__
ContextualMatchingStrategy(context_window, threshold) ==
    [class |-> "ContextualMatchingStrategy",
     context_window |-> context_window, threshold |-> threshold]

-----------------------------------------------------------------------------
(* ExactMatchingStrategy.match *)

RECURSIVE ExactLoop(_, _, _)
\* the for loop over text_bounds, from position n on
ExactLoop(entity_lower, bounds, n) ==
    IF n > Len(bounds) THEN <<>>
    ELSE IF Lower(bounds[n].text) = entity_lower
         THEN <<MatchResult(bounds[n], Hundred, NoContext)>>
              \o ExactLoop(entity_lower, bounds, n + 1)
         ELSE ExactLoop(entity_lower, bounds, n + 1)

\* a match that compares with the entity as given
ExactResultsCaseSensitive(e, bounds) == ExactLoop(e, bounds, 1)

\* the list match returns
ExactResults(e, bounds) == ExactLoop(Lower(e), bounds, 1)

-----------------------------------------------------------------------------
(* FuzzyMatchingStrategy.match *)

\* a score taken against the entity as given
FuzzyConfidenceCaseSensitive(e, tb) == FuzzRatio(e, Lower(tb.text))

\* fuzz.ratio(entity.lower(), text_bound.text.lower())
FuzzyConfidence(e, tb) == FuzzRatio(Lower(e), Lower(tb.text))

\* a test that drops a score equal to the threshold
FuzzyKeepsAbove(confidence, threshold) == confidence.num > threshold * confidence.den

\* the test that keeps a token: confidence >= self.threshold
FuzzyKeeps(confidence, threshold) == AtLeast(confidence, threshold)

RECURSIVE FuzzyLoop(_, _, _, _)
\* the for loop over text_bounds, from position n on
FuzzyLoop(self, e, bounds, n) ==
    IF n > Len(bounds) THEN <<>>
    ELSE LET confidence == FuzzyConfidence(e, bounds[n])
         IN  IF FuzzyKeeps(confidence, self.threshold)
             THEN <<MatchResult(bounds[n], confidence, NoContext)>>
                  \o FuzzyLoop(self, e, bounds, n + 1)
             ELSE FuzzyLoop(self, e, bounds, n + 1)

\* the list match returns
FuzzyResults(self, e, bounds) == FuzzyLoop(self, e, bounds, 1)

-----------------------------------------------------------------------------
(* ContextualMatchingStrategy.match *)

RECURSIVE PageKeys(_, _, _)
\* the keys of page_groups in insertion order: pages by first appearance
PageKeys(bounds, n, seen) ==
    IF n > Len(bounds) THEN <<>>
    ELSE IF bounds[n].page \in seen
         THEN PageKeys(bounds, n + 1, seen)
         ELSE <<bounds[n].page>> \o PageKeys(bounds, n + 1, seen \cup {bounds[n].page})

\* a grouping that puts every token into every group
SameGroupAnyPage(tb, page) == TRUE

\* whether token tb goes to the group of `page`
SameGroup(tb, page) == tb.page = page

RECURSIVE PageGroup(_, _, _)
\* page_groups[page]: the tokens of that page, in input order
PageGroup(bounds, page, n) ==
    IF n > Len(bounds) THEN <<>>
    ELSE IF SameGroup(bounds[n], page)
         THEN <<bounds[n]>> \o PageGroup(bounds, page, n + 1)
         ELSE PageGroup(bounds, page, n + 1)

\* whether the Python index j (0-based, negative from the end) is in the list
PyIndexOk(list, j) == -Len(list) <= j /\ j < Len(list)

\* list[j] for a Python index j that is in the list
PyItem(list, j) == IF j >= 0 THEN list[j + 1] ELSE list[Len(list) + j + 1]

\* window words taken as written in the tokens
WindowWordsAsGiven(bounds_list, i, k) == [j \in 1..k |-> bounds_list[i + j].text]

\* [bounds_list[i + j][1].text.lower() for j in range(k)], i 0-based
WindowWords(bounds_list, i, k) == [j \in 1..k |-> Lower(bounds_list[i + j].text)]

\* [bounds_list[j][1].text for j in range(context_start, context_end)]
ContextWords(bounds_list, context_start, context_end) ==
    [j \in 1..(context_end - context_start) |-> bounds_list[context_start + j].text]

\* a context whose end leaves the window's own length out
ContextOfShortEnd(self, bounds_list, i, k) ==
    LET context_start == Max2(0, i - self.context_window)
        context_end == Min2(Len(bounds_list), i + self.context_window)
    IN  Join(ContextWords(bounds_list, context_start, context_end))

\* the context string of the window at i
ContextOf(self, bounds_list, i, k) ==
    LET context_start == Max2(0, i - self.context_window)
        context_end == Min2(Len(bounds_list), i + k + self.context_window)
    IN  Join(ContextWords(bounds_list, context_start, context_end))

\* a merged bound that takes all four corners from the first token
MergedBoundOfFirst(bounds_list, i, k, window_text, page) ==
    LET first_bound == PyItem(bounds_list, i)
    IN  TextBound(window_text, first_bound.x0, first_bound.y0,
                  first_bound.x1, first_bound.y1, page)

\* the merged TextBound of the window at i
MergedBound(bounds_list, i, k, window_text, page) ==
    LET first_bound == PyItem(bounds_list, i)
        last_bound == PyItem(bounds_list, i + k - 1)
    IN  TextBound(window_text, first_bound.x0, first_bound.y0,
                  last_bound.x1, last_bound.y1, page)

\* a range that stops one window early
LastStartShort(bounds_list, k) == Len(bounds_list) - k - 1

\* the last start index of range(len(bounds_list) - len(entity_words) + 1)
LastStart(bounds_list, k) == Len(bounds_list) - k

RECURSIVE WindowLoop(_, _, _, _, _, _)
\* the inner for loop over i (0-based), from i on; acc is `results` so far.
\* An index outside the list raises IndexError, which ends the call.
WindowLoop(self, e, page, bounds_list, i, acc) ==
    LET k == Len(Split(Lower(e)))
    IN  IF i > LastStart(bounds_list, k) THEN Returned(acc)
        ELSE LET window_text == Join(WindowWords(bounds_list, i, k))
                 confidence == FuzzRatio(Lower(e), window_text)
             IN  IF ~AtLeast(confidence, self.threshold)
                 THEN WindowLoop(self, e, page, bounds_list, i + 1, acc)
                 ELSE IF ~PyIndexOk(bounds_list, i) \/ ~PyIndexOk(bounds_list, i + k - 1)
                      THEN Raised
                      ELSE WindowLoop(self, e, page, bounds_list, i + 1,
                               Append(acc,
                                   MatchResult(
                                       MergedBound(bounds_list, i, k, window_text, page),
                                       confidence,
                                       ContextOf(self, bounds_list, i, k))))

RECURSIVE PageLoop(_, _, _, _, _)
\* the outer for loop over page_groups.items(), from the n-th key on
PageLoop(self, e, bounds, keys, acc) ==
    IF keys = <<>> THEN Returned(acc)
    ELSE LET page == Head(keys)
             done == WindowLoop(self, e, page, PageGroup(bounds, page, 1), 0, acc)
         IN  IF done.status = "returned"
             THEN PageLoop(self, e, bounds, Tail(keys), done.results)
             ELSE done

\* what match does: the list it returns, or the exception it raises
ContextualOutcome(self, e, bounds) ==
    PageLoop(self, e, bounds, PageKeys(bounds, 1, {}), <<>>)

-----------------------------------------------------------------------------
(* MatchingStrategyFactory.create_strategy *)

\* the names of the three classes, in the order of the `strategies` dict
exact == <<"e", "x", "a", "c", "t">>

fuzzy == <<"f", "u", "z", "z", "y">>

contextual == <<"c", "o", "n", "t", "e", "x", "t", "u", "a", "l">>

\* strategies.keys()
StrategyKeys == <<exact, fuzzy, contextual>>

\* kwargs.get('threshold', 80.0)
DefaultFuzzyThreshold == 80

\* kwargs.get('threshold', 70.0)
DefaultContextualThreshold == 70

\* kwargs.get('context_window', 3)
DefaultContextWindow == 3

\* a lookup that never finds the key
GetDefault(kw, key, default) == default

\* kwargs.get(key, default)
Get(kw, key, default) == IF key \in DOMAIN kw THEN kw[key] ELSE default

\* a lookup by the name as given
LookupKeyAsGiven(name) == name

\* the key looked up in `strategies`: strategy_type.lower()
LookupKey(name) == Lower(name)

\* a message that names the lowercased name
NameLowered(name) == Lower(name)

\* the name put into the ValueError's message: strategy_type as given
NameInMessage(name) == name

\* create_strategy returned `instance`
Created(instance) == [status |-> "returned", strategy |-> instance]

\* create_strategy raised ValueError(f"Unknown strategy type: {strategy_type}.
\* Available types: {', '.join(strategies.keys())}")
UnknownStrategyType(name) ==
    [status |-> "ValueError",
     message |-> <<"Unknown strategy type: ", NameInMessage(name),
                   ". Available types: ", StrategyKeys>>]

\* create_strategy has not been called
NotCreated == [status |-> "none"]

\* what create_strategy(strategy_type, **kwargs) does
CreateStrategy(name, kw) ==
    IF ~(\E n \in DOMAIN StrategyKeys : StrategyKeys[n] = LookupKey(name))
    THEN UnknownStrategyType(name)
    ELSE IF Lower(name) = exact
    THEN Created(ExactMatchingStrategy)
    ELSE IF Lower(name) = fuzzy
    THEN Created(FuzzyMatchingStrategy(Get(kw, "threshold", DefaultFuzzyThreshold)))
    ELSE Created(ContextualMatchingStrategy(
             Get(kw, "context_window", DefaultContextWindow),
             Get(kw, "threshold", DefaultContextualThreshold)))

\* create_strategy() got multiple values for argument 'strategy_type'
MultipleValues == [status |-> "TypeError", argument |-> "strategy_type"]

\* the call create_strategy(name, **kw): a keyword named like the positional
\* parameter strategy_type cannot be bound, and the call raises TypeError
\* before the body runs
CallCreateStrategy(name, kw) ==
    IF "strategy_type" \in DOMAIN kw THEN MultipleValues
    ELSE CreateStrategy(name, kw)

\* what get_all_strategies(**kwargs) does: 'exact' created without kwargs,
\* then 'fuzzy' and 'contextual' with them; the first call that raises ends it
GetAllStrategies(kw) ==
    LET e == CallCreateStrategy(exact, <<>>)
        f == CallCreateStrategy(fuzzy, kw)
        c == CallCreateStrategy(contextual, kw)
    IN  IF e.status # "returned" THEN e
        ELSE IF f.status # "returned" THEN f
        ELSE IF c.status # "returned" THEN c
        ELSE [status |-> "returned",
              strategies |-> [key \in {exact, fuzzy, contextual} |->
                                IF key = exact THEN e.strategy
                                ELSE IF key = fuzzy THEN f.strategy
                                ELSE c.strategy]]

-----------------------------------------------------------------------------
(* Inputs *)

\* the values a caller passes as threshold
ThresholdArgs == {50, 100, 101}

\* the values a caller passes as context_window
WindowArgs == {0, 1}

\* nothing, or one value of S
Opt(S) == {{}} \cup {{v} : v \in S}

\* the keyword arguments holding the given threshold, context_window and
\* a key no strategy knows, each present or not
KwargsOf(ts, ws, os) ==
    LET keys == (IF ts = {} THEN {} ELSE {"threshold"})
                \cup (IF ws = {} THEN {} ELSE {"context_window"})
                \cup (IF os = {} THEN {} ELSE {"verbose"})
    IN  [key \in keys |->
            IF key = "threshold" THEN CHOOSE v \in ts : TRUE
            ELSE IF key = "context_window" THEN CHOOSE v \in ws : TRUE
            ELSE CHOOSE v \in os : TRUE]

KwargsBags ==
    {KwargsOf(ts, ws, os) : ts \in Opt(ThresholdArgs), ws \in Opt(WindowArgs),
                            os \in Opt({1})}

\* the keyword arguments of get_all_strategies: the same, with or without a
\* key named strategy_type
AllKwargsBags ==
    KwargsBags \cup {kw @@ [key \in {"strategy_type"} |-> exact] : kw \in KwargsBags}

\* the names a caller passes as strategy_type
StrategyNames ==
    {exact, fuzzy, contextual,
     <<"E", "X", "A", "C", "T">>, <<"E", "x", "a", "c", "t">>,
     <<"F", "U", "Z", "Z", "Y">>,
     <<"C", "o", "n", "t", "e", "x", "t", "u", "a", "l">>,
     <<"b", "o", "g", "u", "s">>, <<"u", "n", "k", "n", "o", "w", "n">>,
     <<"F", "U", "Z", "Y">>, <<>>}

\* the instances create_strategy can return
Strategies ==
    {CreateStrategy(name, kw).strategy : name \in {exact, fuzzy, contextual},
                                         kw \in KwargsBags}

\* the texts of the tokens
TokenTexts == {<<"A">>, <<"b">>, <<"A", "b">>}

\* the pages of the tokens
Pages == {0, 1}

\* the n-th token of a list: its box is its own, no two corners are equal
Token(text, page, n) == TextBound(text, 4 * n, 4 * n + 1, 4 * n + 2, 4 * n + 3, page)

\* the token lists handed to match
TokenLists ==
    UNION {{[n \in 1..len |-> Token(f[n][1], f[n][2], n)] :
                f \in [1..len -> TokenTexts \X Pages]} : len \in 0..MaxTokens}

\* the entities handed to match: no word, one word, two words
Entities ==
    {<<>>, <<" ">>, <<"a">>, <<"A">>, <<" ", "a">>, <<"a", "b">>,
     <<"a", " ", "b">>, <<"A", " ", "b">>}

-----------------------------------------------------------------------------
(* Operations *)

\* strategy.match(entity, text_bounds) on an ExactMatchingStrategy
ExactMatch(e) ==
    /\ strategy.class = "ExactMatchingStrategy"
    /\ entity' = e
    /\ outcome' = Returned(ExactResults(e, text_bounds))
    /\ UNCHANGED <<strategy, text_bounds>>

\* a match that keeps state: it tightens the instance's threshold
FuzzyMatchTightening(e) ==
    /\ strategy.class = "FuzzyMatchingStrategy"
    /\ entity' = e
    /\ outcome' = Returned(FuzzyResults(strategy, e, text_bounds))
    /\ strategy' = [strategy EXCEPT !.threshold = 100]
    /\ UNCHANGED text_bounds

\* strategy.match(entity, text_bounds) on a FuzzyMatchingStrategy
FuzzyMatch(e) ==
    /\ strategy.class = "FuzzyMatchingStrategy"
    /\ entity' = e
    /\ outcome' = Returned(FuzzyResults(strategy, e, text_bounds))
    /\ UNCHANGED <<strategy, text_bounds>>

\* strategy.match(entity, text_bounds) on a ContextualMatchingStrategy
ContextualMatch(e) ==
    /\ strategy.class = "ContextualMatchingStrategy"
    /\ entity' = e
    /\ outcome' = ContextualOutcome(strategy, e, text_bounds)
    /\ UNCHANGED <<strategy, text_bounds>>

\* MatchingStrategyFactory.create_strategy(name, **kw)
CreateStrategyCall(name, kw) ==
    /\ strategy_type' = name
    /\ kwargs' = kw
    /\ created' = CreateStrategy(name, kw)

-----------------------------------------------------------------------------
(* Specifications *)

\* no first call recorded
NoFirst == [entity |-> <<>>, outcome |-> NoCall, between |-> FALSE]

\* get_all_strategies has not been called
NoDict == [status |-> "none"]

\* no request answered yet
NoResponse == [op |-> "none", file_id |-> "", status |-> 0]

\* no get_all_strategies call, no concurrent call, no request made
RestIdle ==
    /\ all_strategies = NoDict
    /\ calls = <<>>
    /\ pdf_storage = <<>>
    /\ disk = <<>>
    /\ cleaned = {}
    /\ response = NoResponse

\* no call made on the factory
FactoryIdle ==
    /\ strategy_type = <<>>
    /\ kwargs = <<>>
    /\ created = NotCreated
    /\ RestIdle

\* a strategy instance and a token list, no match call made yet
Init ==
    /\ strategy \in Strategies
    /\ text_bounds \in TokenLists
    /\ entity = <<>>
    /\ outcome = NoCall
    /\ first = NoFirst
    /\ FactoryIdle

\* the one match call main.py makes on the instance it has created
ExactMatchCall ==
    \E e \in Entities :
        /\ outcome = NoCall
        /\ ExactMatch(e)
        /\ UNCHANGED <<first, strategy_type, kwargs, created, restVars>>

FuzzyMatchCall ==
    \E e \in Entities :
        /\ outcome = NoCall
        /\ FuzzyMatch(e)
        /\ UNCHANGED <<first, strategy_type, kwargs, created, restVars>>

ContextualMatchCall ==
    \E e \in Entities :
        /\ outcome = NoCall
        /\ ContextualMatch(e)
        /\ UNCHANGED <<first, strategy_type, kwargs, created, restVars>>

Next == ExactMatchCall \/ FuzzyMatchCall \/ ContextualMatchCall

Spec == Init /\ [][Next]_vars

\* the entities of repeated calls
RepeatEntities == {<<"a">>, <<"a", " ", "b">>}

\* the record of the first call made on the instance, and of whether a call
\* with another entity has followed it
Recorded(e) ==
    IF first.outcome.status = "none"
    THEN [entity |-> e, outcome |-> outcome', between |-> FALSE]
    ELSE [first EXCEPT !.between = first.between \/ e # first.entity]

\* any number of match calls on one instance with one token list
ExactMatchAgain ==
    \E e \in RepeatEntities :
        /\ ExactMatch(e)
        /\ first' = Recorded(e)
        /\ UNCHANGED <<strategy_type, kwargs, created, restVars>>

FuzzyMatchAgain ==
    \E e \in RepeatEntities :
        /\ FuzzyMatch(e)
        /\ first' = Recorded(e)
        /\ UNCHANGED <<strategy_type, kwargs, created, restVars>>

ContextualMatchAgain ==
    \E e \in RepeatEntities :
        /\ ContextualMatch(e)
        /\ first' = Recorded(e)
        /\ UNCHANGED <<strategy_type, kwargs, created, restVars>>

NextRepeat == ExactMatchAgain \/ FuzzyMatchAgain \/ ContextualMatchAgain

SpecRepeat == Init /\ [][NextRepeat]_vars

\* the factory alone
InitFactory ==
    /\ strategy = ExactMatchingStrategy
    /\ text_bounds = <<>>
    /\ entity = <<>>
    /\ outcome = NoCall
    /\ first = NoFirst
    /\ FactoryIdle

CreateStrategyStep ==
    \E name \in StrategyNames, kw \in KwargsBags :
        /\ CreateStrategyCall(name, kw)
        /\ all_strategies' = NoDict
        /\ UNCHANGED <<strategy, text_bounds, entity, outcome, first>>
        /\ UNCHANGED <<calls, pdf_storage, disk, cleaned, response>>

NextFactory == CreateStrategyStep

SpecFactory == InitFactory /\ [][NextFactory]_vars

\* MatchingStrategyFactory.get_all_strategies(**kw)
GetAllStrategiesStep ==
    \E kw \in AllKwargsBags :
        /\ all_strategies' = GetAllStrategies(kw)
        /\ kwargs' = kw
        /\ strategy_type' = <<>>
        /\ created' = NotCreated
        /\ UNCHANGED <<strategy, text_bounds, entity, outcome, first>>
        /\ UNCHANGED <<calls, pdf_storage, disk, cleaned, response>>

\* the factory's two operations, called in any order
NextAll == GetAllStrategiesStep \/ CreateStrategyStep

SpecAll == InitFactory /\ [][NextAll]_vars

-----------------------------------------------------------------------------
(* main.py: the HTTP API *)

\* MatchRequest.threshold: Field(80.0)
RequestThreshold == 80

\* MatchRequest.context_window: Field(3)
RequestContextWindow == 3

\* get_strategies: fuzzy, threshold, "default": 80.0
AdvertisedFuzzyThreshold == 80

\* get_strategies: contextual, threshold, "default": 70.0
AdvertisedContextualThreshold == 70

\* get_strategies: contextual, context_window, "default": 3
AdvertisedContextWindow == 3

\* the defaults get_strategies answers with, by strategy and parameter
GetStrategies ==
    [exact |-> <<>>,
     fuzzy |-> [threshold |-> AdvertisedFuzzyThreshold],
     contextual |-> [threshold |-> AdvertisedContextualThreshold,
                     context_window |-> AdvertisedContextWindow]]

\* MatchRequest parsed from a JSON body: the fields given, and the Field
\* defaults for the fields omitted
MatchRequest(body) ==
    [entity |-> body["entity"],
     strategy |-> Get(body, "strategy", exact),
     threshold |-> Get(body, "threshold", RequestThreshold),
     context_window |-> Get(body, "context_window", RequestContextWindow)]

\* strategy.match(entity, text_bounds), by the class of the instance
MatchOutcome(self, e, bounds) ==
    IF self.class = "ExactMatchingStrategy" THEN Returned(ExactResults(e, bounds))
    ELSE IF self.class = "FuzzyMatchingStrategy"
    THEN Returned(FuzzyResults(self, e, bounds))
    ELSE ContextualOutcome(self, e, bounds)

\* s.endswith(suffix)
EndsWith(s, suffix) ==
    /\ Len(s) >= Len(suffix)
    /\ SubSeq(s, Len(s) - Len(suffix) + 1, Len(s)) = suffix

\* '.pdf'
DotPdf == <<".", "p", "d", "f">>

\* the name NamedTemporaryFile(suffix='.pdf') gives a file whose stem is `stem`
TmpPath(stem) == <<"/tmp/", stem, ".pdf">>

\* Path(tmp_path).stem
Stem(path) == path[2]

\* uploaded bytes that pdfplumber cannot open
NotPdf == [pdf |-> FALSE, words |-> <<>>]

\* uploaded bytes of a PDF whose words are `words`
Pdf(words) == [pdf |-> TRUE, words |-> words]

\* pdfplumber raised on a file that is missing or is not a PDF
ExtractFailed == [status |-> "PdfError", results |-> <<>>]

\* PDFExtractor(path).extract_text_with_bounds()
ExtractTextWithBounds(path) ==
    IF path \in DOMAIN disk /\ disk[path].pdf
    THEN Returned(disk[path].words)
    ELSE ExtractFailed

\* an answer that carries a status only
Answer(op, file_id, status) == [op |-> op, file_id |-> file_id, status |-> status]

\* what upload_pdf answers to the upload of a file named `filename`
UploadAnswer(file_id, status, filename) ==
    [op |-> "upload_pdf", file_id |-> file_id, status |-> status,
     filename |-> filename]

\* what match_entity answers, and what it did on the way: the request it
\* parsed, the strategy it created, the matches it returned
MatchAnswer(file_id, status, body, made, matches) ==
    [op |-> "match_entity", file_id |-> file_id, status |-> status,
     body |-> body, strategy |-> made, matches |-> matches,
     match_count |-> Len(matches)]

\* upload_pdf(file): 400 unless the filename ends in '.pdf'; else a temporary
\* file with a name not in use is written and stored under its stem; a write
\* that fails removes the file and answers 500
UploadPdf(filename, content, stem, fails) ==
    IF ~EndsWith(filename, DotPdf)
    THEN /\ response' = UploadAnswer("", 400, filename)
         /\ UNCHANGED <<pdf_storage, disk, cleaned>>
    ELSE /\ TmpPath(stem) \notin DOMAIN disk
         /\ IF fails
            THEN /\ response' = UploadAnswer("", 500, filename)
                 /\ UNCHANGED <<pdf_storage, disk, cleaned>>
            ELSE /\ disk' = (TmpPath(stem) :> content) @@ disk
                 /\ pdf_storage' = (Stem(TmpPath(stem)) :> TmpPath(stem)) @@ pdf_storage
                 /\ response' = UploadAnswer(Stem(TmpPath(stem)), 200, filename)
                 /\ UNCHANGED cleaned

\* extract_text(file_id)
ExtractText(file_id) ==
    /\ response' =
        IF file_id \notin DOMAIN pdf_storage
        THEN Answer("extract_text", file_id, 404)
        ELSE IF ExtractTextWithBounds(pdf_storage[file_id]).status = "returned"
        THEN Answer("extract_text", file_id, 200)
        ELSE Answer("extract_text", file_id, 500)
    /\ UNCHANGED <<pdf_storage, disk, cleaned>>

\* match_entity(file_id, request): 404 for an unknown file_id; then the text
\* is extracted, the strategy created with the request's threshold and
\* context_window, and the match made; ValueError answers 400, any other
\* exception 500
MatchEntity(file_id, body) ==
    /\ response' =
        IF file_id \notin DOMAIN pdf_storage
        THEN MatchAnswer(file_id, 404, body, NotCreated, <<>>)
        ELSE LET request == MatchRequest(body)
                 extracted == ExtractTextWithBounds(pdf_storage[file_id])
                 made == CallCreateStrategy(
                            request.strategy,
                            [key \in {"threshold", "context_window"} |->
                                IF key = "threshold" THEN request.threshold
                                ELSE request.context_window])
             IN  IF extracted.status # "returned"
                 THEN MatchAnswer(file_id, 500, body, NotCreated, <<>>)
                 ELSE IF made.status = "ValueError"
                 THEN MatchAnswer(file_id, 400, body, made, <<>>)
                 ELSE LET matched == MatchOutcome(made.strategy, request.entity,
                                                  extracted.results)
                      IN  IF matched.status # "returned"
                          THEN MatchAnswer(file_id, 500, body, made, <<>>)
                          ELSE MatchAnswer(file_id, 200, body, made, matched.results)
    /\ UNCHANGED <<pdf_storage, disk, cleaned>>

\* get_strategies()
GetStrategiesAnswer ==
    /\ response' = Answer("get_strategies", "", 200)
    /\ UNCHANGED <<pdf_storage, disk, cleaned>>

\* a cleanup that removes the file and keeps the key
CleanupPdfKeepingKey(file_id, fails) ==
    IF file_id \notin DOMAIN pdf_storage
    THEN /\ response' = Answer("cleanup_pdf", file_id, 404)
         /\ UNCHANGED <<pdf_storage, disk, cleaned>>
    ELSE /\ disk' = [path \in DOMAIN disk \ {pdf_storage[file_id]} |-> disk[path]]
         /\ cleaned' = cleaned \cup {file_id}
         /\ response' = Answer("cleanup_pdf", file_id, 200)
         /\ UNCHANGED pdf_storage

\* cleanup_pdf(file_id): 404 for an unknown file_id; else the file is removed
\* and the key deleted; an os.remove that fails answers 500
CleanupPdf(file_id, fails) ==
    IF file_id \notin DOMAIN pdf_storage
    THEN /\ response' = Answer("cleanup_pdf", file_id, 404)
         /\ UNCHANGED <<pdf_storage, disk, cleaned>>
    ELSE IF fails /\ pdf_storage[file_id] \in DOMAIN disk
    THEN /\ response' = Answer("cleanup_pdf", file_id, 500)
         /\ UNCHANGED <<pdf_storage, disk, cleaned>>
    ELSE /\ disk' = [path \in DOMAIN disk \ {pdf_storage[file_id]} |-> disk[path]]
         /\ pdf_storage' = [id \in DOMAIN pdf_storage \ {file_id} |-> pdf_storage[id]]
         /\ cleaned' = cleaned \cup {file_id}
         /\ response' = Answer("cleanup_pdf", file_id, 200)

\* the filenames of uploads
FileNames ==
    {<<"a", ".", "p", "d", "f">>, <<"a", ".", "t", "x", "t">>,
     <<"a", ".", "P", "D", "F">>, <<"p", "d", "f">>}

\* the stems NamedTemporaryFile can give
TempStems == {"tmpa", "tmpb"}

\* the file_ids of requests: the stems, and one never given
FileIds == TempStems \cup {"tmpz"}

\* the uploaded contents: not a PDF, or a one-page PDF with the words Ab Ab
Uploads == {NotPdf, Pdf(<<Token(<<"A", "b">>, 0, 1), Token(<<"A", "b">>, 0, 2)>>)}

\* the JSON bodies of match requests: an entity, and strategy, threshold and
\* context_window each given or omitted
BodyOf(e, ss, ts, ws) ==
    LET keys == {"entity"} \cup (IF ss = {} THEN {} ELSE {"strategy"})
                \cup (IF ts = {} THEN {} ELSE {"threshold"})
                \cup (IF ws = {} THEN {} ELSE {"context_window"})
    IN  [key \in keys |->
            IF key = "entity" THEN e
            ELSE IF key = "strategy" THEN CHOOSE v \in ss : TRUE
            ELSE IF key = "threshold" THEN CHOOSE v \in ts : TRUE
            ELSE CHOOSE v \in ws : TRUE]

Bodies ==
    {BodyOf(e, ss, ts, ws) :
        e \in {<<>>, <<"a", " ", "b">>},
        ss \in Opt({exact, fuzzy, contextual, <<"b", "o", "g", "u", "s">>}),
        ts \in Opt({50}), ws \in Opt({1})}

\* the server starts with an empty pdf_storage
InitApi == InitFactory

UploadPdfRequest ==
    \E filename \in FileNames, content \in Uploads, stem \in TempStems,
       fails \in BOOLEAN :
        /\ UploadPdf(filename, content, stem, fails)
        /\ UNCHANGED <<coreVars, all_strategies, calls>>

ExtractTextRequest ==
    \E file_id \in FileIds :
        /\ ExtractText(file_id)
        /\ UNCHANGED <<coreVars, all_strategies, calls>>

MatchEntityRequest ==
    \E file_id \in FileIds, body \in Bodies :
        /\ MatchEntity(file_id, body)
        /\ UNCHANGED <<coreVars, all_strategies, calls>>

GetStrategiesRequest ==
    /\ GetStrategiesAnswer
    /\ UNCHANGED <<coreVars, all_strategies, calls>>

CleanupPdfRequest ==
    \E file_id \in FileIds, fails \in BOOLEAN :
        /\ CleanupPdf(file_id, fails)
        /\ UNCHANGED <<coreVars, all_strategies, calls>>

NextApi ==
    \/ UploadPdfRequest
    \/ ExtractTextRequest
    \/ MatchEntityRequest
    \/ GetStrategiesRequest
    \/ CleanupPdfRequest

SpecApi == InitApi /\ [][NextApi]_vars

-----------------------------------------------------------------------------
(* Several match calls on one instance *)

\* how many match calls run on the shared instance
MaxCalls == 2

\* a match call that has just been entered: its arguments and its locals.
\* `given` keeps the token list as it was passed, `met` tells whether the call
\* has run an iteration while another call was in its loop
Frame(e, bounds) ==
    [entity |-> e, text_bounds |-> bounds, given |-> bounds,
     pc |-> "running", n |-> 1, keys |-> PageKeys(bounds, 1, {}), i |-> 0,
     results |-> <<>>, met |-> FALSE]

\* one pass of ExactMatchingStrategy.match's for loop, or its return
ExactIteration(c) ==
    IF c.n > Len(c.text_bounds) THEN [c EXCEPT !.pc = "returned"]
    ELSE IF Lower(c.text_bounds[c.n].text) = Lower(c.entity)
    THEN [c EXCEPT !.n = @ + 1,
                   !.results = Append(@, MatchResult(c.text_bounds[c.n], Hundred, NoContext))]
    ELSE [c EXCEPT !.n = @ + 1]

\* one pass of FuzzyMatchingStrategy.match's for loop, or its return; the
\* pass reads self.threshold
FuzzyIteration(self, c) ==
    IF c.n > Len(c.text_bounds) THEN [c EXCEPT !.pc = "returned"]
    ELSE LET confidence == FuzzyConfidence(c.entity, c.text_bounds[c.n])
         IN  IF FuzzyKeeps(confidence, self.threshold)
             THEN [c EXCEPT !.n = @ + 1,
                            !.results = Append(@, MatchResult(c.text_bounds[c.n],
                                                              confidence, NoContext))]
             ELSE [c EXCEPT !.n = @ + 1]

\* one pass of ContextualMatchingStrategy.match's inner for loop, the move to
\* the next page group, or the return; the pass reads self.threshold and
\* self.context_window
ContextualIteration(self, c) ==
    IF c.keys = <<>> THEN [c EXCEPT !.pc = "returned"]
    ELSE LET page == Head(c.keys)
             bounds_list == PageGroup(c.text_bounds, page, 1)
             k == Len(Split(Lower(c.entity)))
             window_text == Join(WindowWords(bounds_list, c.i, k))
             confidence == FuzzRatio(Lower(c.entity), window_text)
         IN  IF c.i > LastStart(bounds_list, k)
             THEN [c EXCEPT !.keys = Tail(@), !.i = 0]
             ELSE IF ~AtLeast(confidence, self.threshold)
             THEN [c EXCEPT !.i = @ + 1]
             ELSE IF ~PyIndexOk(bounds_list, c.i) \/ ~PyIndexOk(bounds_list, c.i + k - 1)
             THEN [c EXCEPT !.pc = "IndexError"]
             ELSE [c EXCEPT !.i = @ + 1,
                            !.results = Append(@,
                                MatchResult(
                                    MergedBound(bounds_list, c.i, k, window_text, page),
                                    confidence,
                                    ContextOf(self, bounds_list, c.i, k)))]

\* the next iteration of a call on the instance `self`
Iteration(self, c) ==
    IF self.class = "ExactMatchingStrategy" THEN ExactIteration(c)
    ELSE IF self.class = "FuzzyMatchingStrategy" THEN FuzzyIteration(self, c)
    ELSE ContextualIteration(self, c)

\* another call is in its loop
OthersRunning(c) == \E d \in DOMAIN calls : d # c /\ calls[d].pc = "running"

\* an iteration that stores the score it needs in the instance
MatchIterationWriting(c) ==
    /\ calls[c].pc = "running"
    /\ calls' = [calls EXCEPT ![c] = [Iteration(strategy, @) EXCEPT
                                        !.met = @ \/ OthersRunning(c)]]
    /\ strategy' = IF strategy.class = "ExactMatchingStrategy" THEN strategy
                   ELSE [strategy EXCEPT !.threshold = 100]

\* call c runs its next iteration: it changes its own locals only
MatchIteration(c) ==
    /\ calls[c].pc = "running"
    /\ calls' = [calls EXCEPT ![c] = [Iteration(strategy, @) EXCEPT
                                        !.met = @ \/ OthersRunning(c)]]
    /\ strategy' = strategy

\* the entities of the concurrent calls
CallEntities == {<<>>, <<"a">>, <<"a", " ", "b">>}

\* the token lists of the concurrent calls
CallTokenLists ==
    {<<>>, <<Token(<<"A">>, 0, 1), Token(<<"b">>, 0, 2)>>,
     <<Token(<<"A">>, 1, 1), Token(<<"A", "b">>, 0, 2), Token(<<"b">>, 1, 3)>>}

\* the shared instances
SharedStrategies ==
    {ExactMatchingStrategy, FuzzyMatchingStrategy(50),
     ContextualMatchingStrategy(1, 50)}

\* one instance, no call on it yet
InitShared ==
    /\ strategy \in SharedStrategies
    /\ text_bounds = <<>>
    /\ entity = <<>>
    /\ outcome = NoCall
    /\ first = NoFirst
    /\ FactoryIdle

\* a thread enters strategy.match(e, bounds) with its own arguments
EnterMatch ==
    \E e \in CallEntities, bounds \in CallTokenLists :
        /\ Len(calls) < MaxCalls
        /\ calls' = Append(calls, Frame(e, bounds))
        /\ UNCHANGED <<coreVars, all_strategies, pdf_storage, disk, cleaned, response>>

\* some call in progress runs its next iteration
RunMatch ==
    \E c \in DOMAIN calls :
        /\ MatchIteration(c)
        /\ UNCHANGED <<text_bounds, entity, outcome, first, strategy_type, kwargs, created>>
        /\ UNCHANGED <<all_strategies, pdf_storage, disk, cleaned, response>>

NextShared == EnterMatch \/ RunMatch

SpecShared == InitShared /\ [][NextShared]_vars

-----------------------------------------------------------------------------
(* Vocabulary of the properties *)

\* a match call has been made
Called == outcome.status # "none"

IsExact == strategy.class = "ExactMatchingStrategy"

IsFuzzy == strategy.class = "FuzzyMatchingStrategy"

IsContextual == strategy.class = "ContextualMatchingStrategy"

\* s and t are equal case-insensitively
EqualsIgnoreCase(s, t) ==
    /\ Len(s) = Len(t)
    /\ \A i \in 1..Len(s) : LowerChar(s[i]) = LowerChar(t[i])

\* the number of whitespace-delimited words of the last entity
K == Len(Split(Lower(entity)))

\* the tokens of page p, in input order
GroupOf(p) == SelectSeq(text_bounds, LAMBDA tb : tb.page = p)

\* the pages that have a token
PagesPresent == {text_bounds[n].page : n \in 1..Len(text_bounds)}

\* the position in the input of the first token of page p
FirstPosition(p) ==
    CHOOSE n \in 1..Len(text_bounds) :
        /\ text_bounds[n].page = p
        /\ \A m \in 1..(n - 1) : text_bounds[m].page # p

\* the lowercased texts of the k tokens of group g from position i (1-based)
\* on, joined by single spaces
WindowText(g, i, k) == Join([j \in 1..k |-> Lower(g[i + j - 1].text)])

\* the last call returned a list and did not raise
ReturnedList == outcome.status = "returned"

-----------------------------------------------------------------------------
(* Properties of ExactMatchingStrategy.match *)

\* the tokens an exact match keeps
ExactKept == SelectSeq(text_bounds, LAMBDA tb : EqualsIgnoreCase(tb.text, entity))

\* C1: ExactMatchingStrategy.match returns one result per token whose
\* lowercased text equals the lowercased entity and none for any other token,
\* in input order; each result carries its token unchanged, confidence 100.0
\* and no context.
C1_ExactSubsetInOrder ==
    (IsExact /\ Called) =>
        /\ ReturnedList
        /\ Len(outcome.results) = Len(ExactKept)
        /\ \A n \in 1..Len(outcome.results) :
            /\ outcome.results[n].text_bound = ExactKept[n]
            /\ outcome.results[n].confidence = [num |-> 100, den |-> 1]
            /\ outcome.results[n].context = NoContext

\* C1's case: an exact match that keeps two tokens, one of them written in
\* another case than the entity, and drops another token
C1_Witness ==
    /\ IsExact /\ Called
    /\ Len(outcome.results) = 2
    /\ Len(text_bounds) > 2
    /\ \E n \in 1..2 : outcome.results[n].text_bound.text # entity

-----------------------------------------------------------------------------
(* Properties of FuzzyMatchingStrategy.match *)

\* some token equals the entity case-insensitively
SomeTokenEqualsEntity ==
    \E n \in 1..Len(text_bounds) : EqualsIgnoreCase(text_bounds[n].text, entity)

\* every confidence of the last call's results lies in [threshold, 100]
ConfidencesWithinThreshold ==
    \A n \in 1..Len(outcome.results) :
        LET c == outcome.results[n].confidence
        IN  c.num >= strategy.threshold * c.den /\ c.num <= 100 * c.den

\* some result of the last call has confidence exactly 100.0
SomeResultIsHundred ==
    \E n \in 1..Len(outcome.results) :
        outcome.results[n].confidence = [num |-> 100, den |-> 1]

\* C2 as stated: for every threshold, each fuzzy confidence lies in
\* [threshold, 100], and a token equal to the entity case-insensitively gives
\* a result of confidence 100.0.
C2_AsStated ==
    (IsFuzzy /\ Called) =>
        /\ ConfidencesWithinThreshold
        /\ SomeTokenEqualsEntity => SomeResultIsHundred

\* C2 amended: each fuzzy confidence lies in [threshold, 100]; when the
\* threshold is at most 100, a token equal to the entity case-insensitively
\* gives a result of confidence 100.0.
C2_HundredUpToThreshold100 ==
    (IsFuzzy /\ Called) =>
        /\ ReturnedList
        /\ ConfidencesWithinThreshold
        /\ (strategy.threshold <= 100 /\ SomeTokenEqualsEntity) => SomeResultIsHundred

\* C2's case: threshold 100, a token equal to the entity but for its case,
\* kept with confidence 100.0, and another token dropped
C2_Witness ==
    /\ IsFuzzy /\ Called
    /\ strategy.threshold = 100
    /\ \E n \in 1..Len(text_bounds) :
        /\ EqualsIgnoreCase(text_bounds[n].text, entity)
        /\ text_bounds[n].text # entity
    /\ SomeResultIsHundred
    /\ Len(outcome.results) < Len(text_bounds)

\* the score of a token against the whole entity, case-insensitively
TokenScore(tb) == FuzzRatio(Lower(entity), Lower(tb.text))

\* the tokens a fuzzy match keeps
FuzzyKept ==
    SelectSeq(text_bounds,
              LAMBDA tb : TokenScore(tb).num >= strategy.threshold * TokenScore(tb).den)

\* C10: FuzzyMatchingStrategy.match keeps exactly the tokens whose score is
\* >= threshold, in input order; each result carries its token unchanged, the
\* score as confidence and no context.
C10_FuzzyKeepsAtLeastThreshold ==
    (IsFuzzy /\ Called) =>
        /\ ReturnedList
        /\ Len(outcome.results) = Len(FuzzyKept)
        /\ \A n \in 1..Len(outcome.results) :
            /\ outcome.results[n].text_bound = FuzzyKept[n]
            /\ outcome.results[n].confidence = TokenScore(FuzzyKept[n])
            /\ outcome.results[n].context = NoContext

\* C10's case: a token whose score equals the threshold is kept, a token is
\* dropped, and a kept token precedes one of higher confidence
C10_Witness ==
    /\ IsFuzzy /\ Called
    /\ Len(outcome.results) < Len(text_bounds)
    /\ \E n \in 1..Len(outcome.results) :
        outcome.results[n].confidence.num
            = strategy.threshold * outcome.results[n].confidence.den
    /\ \E n \in 1..Len(outcome.results), m \in 1..Len(outcome.results) :
        /\ n < m
        /\ outcome.results[n].confidence.num * outcome.results[m].confidence.den
             < outcome.results[m].confidence.num * outcome.results[n].confidence.den

-----------------------------------------------------------------------------
(* Properties of ContextualMatchingStrategy.match *)

\* result r is the window of K tokens of page p's group that starts at i
IsWindowAt(r, p, i) ==
    LET g == GroupOf(p)
    IN  /\ r.text_bound.page = p
        /\ r.text_bound.text = WindowText(g, i, K)
        /\ r.text_bound.x0 = g[i].x0
        /\ r.text_bound.y0 = g[i].y0
        /\ r.text_bound.x1 = g[i + K - 1].x1
        /\ r.text_bound.y1 = g[i + K - 1].y1

\* C3: with k >= 1 entity words, every contextual result is built from
\* exactly k tokens of one page that are adjacent in that page's group, and
\* its page is theirs; no result combines tokens of two pages.
C3_WindowOfKSamePageTokens ==
    (IsContextual /\ Called /\ K >= 1) =>
        /\ ReturnedList
        /\ \A n \in 1..Len(outcome.results) :
            \E p \in PagesPresent :
                \E i \in 1..(Len(GroupOf(p)) - K + 1) :
                    IsWindowAt(outcome.results[n], p, i)

\* C3's case: a two-word match whose two tokens are adjacent in their
\* page's group but not in the input, a token of the other page lying between
C3_Witness ==
    /\ IsContextual /\ Called /\ K = 2
    /\ Cardinality(PagesPresent) = 2
    /\ \E n \in 1..Len(outcome.results) :
        outcome.results[n].text_bound.x1 - outcome.results[n].text_bound.x0 > 6

\* the window of K tokens of page p's group at i clears the threshold
Qualifies(p, i) ==
    /\ i <= Len(GroupOf(p)) - K + 1
    /\ LET score == FuzzRatio(Lower(entity), WindowText(GroupOf(p), i, K))
       IN  score.num >= strategy.threshold * score.den

\* the (page, start index) pairs whose window clears the threshold
QualifyingPairs ==
    {pi \in PagesPresent \X (1..Len(text_bounds)) : Qualifies(pi[1], pi[2])}

\* result r comes before result q: same page and an earlier start, or a page
\* that appears earlier in the input
ComesBefore(r, q) ==
    IF r.text_bound.page = q.text_bound.page
    THEN r.text_bound.x0 < q.text_bound.x0
    ELSE FirstPosition(r.text_bound.page) < FirstPosition(q.text_bound.page)

\* C9: with k >= 1 entity words, a contextual match emits exactly one result
\* for every (page group, start index) whose window similarity is >=
\* threshold and none for any other, overlapping windows included; results
\* are in ascending start order within a page, pages in order of first
\* appearance.
C9_OneResultPerQualifyingWindow ==
    (IsContextual /\ Called /\ K >= 1) =>
        /\ ReturnedList
        /\ Len(outcome.results) = Cardinality(QualifyingPairs)
        /\ \A n \in 1..Len(outcome.results) :
            \E pi \in QualifyingPairs :
                /\ IsWindowAt(outcome.results[n], pi[1], pi[2])
                /\ outcome.results[n].confidence
                     = FuzzRatio(Lower(entity), WindowText(GroupOf(pi[1]), pi[2], K))
        /\ \A n \in 1..Len(outcome.results), m \in 1..Len(outcome.results) :
            n < m => ComesBefore(outcome.results[n], outcome.results[m])

\* C9's case: two overlapping two-token windows of one page both kept, in
\* start order
C9_Witness ==
    /\ IsContextual /\ Called /\ K = 2
    /\ \E n \in 1..(Len(outcome.results) - 1) :
        /\ outcome.results[n].text_bound.page = outcome.results[n + 1].text_bound.page
        /\ outcome.results[n].text_bound.x0 < outcome.results[n + 1].text_bound.x0
        /\ outcome.results[n + 1].text_bound.x0 < outcome.results[n].text_bound.x1

\* C8: when the entity splits into zero words, a contextual match returns an
\* empty list and does not raise.
C8_NoWordsReturnsEmpty ==
    (IsContextual /\ Called /\ K = 0) => outcome = Returned(<<>>)

-----------------------------------------------------------------------------
(* Properties of every strategy *)

\* C7: every result's confidence lies in [0, 100], and it is 100.0 exactly
\* when the matched text (the token's text, or the joined window text) equals
\* the entity case-insensitively.
C7_HundredIffEqualText ==
    (Called /\ ReturnedList) =>
        \A n \in 1..Len(outcome.results) :
            LET r == outcome.results[n]
            IN  /\ r.confidence.num >= 0
                /\ r.confidence.num <= 100 * r.confidence.den
                /\ r.confidence = [num |-> 100, den |-> 1]
                     <=> EqualsIgnoreCase(r.text_bound.text, entity)

\* C7's case: a fuzzy match that keeps a token equal to the entity but for
\* its case, at 100.0, and a token that differs, below 100.0
C7_Witness ==
    /\ IsFuzzy /\ Called
    /\ \E n \in 1..Len(outcome.results) :
        /\ outcome.results[n].confidence = [num |-> 100, den |-> 1]
        /\ outcome.results[n].text_bound.text # entity
    /\ \E n \in 1..Len(outcome.results) :
        outcome.results[n].confidence.num < 100 * outcome.results[n].confidence.den

-----------------------------------------------------------------------------
(* Properties of MatchingStrategyFactory.create_strategy *)

\* create_strategy has been called
FactoryCalled == created.status # "none"

\* the lowercase form of the name is one of the three strategy names
KnownName == Lower(strategy_type) \in {exact, fuzzy, contextual}

\* C5: for a name whose lowercase form is "exact", "fuzzy" or "contextual",
\* the strategy created is the one created from the lowercase name with the
\* same params: same variant, same threshold and context_window.
C5_NameCaseInsensitive ==
    (FactoryCalled /\ KnownName) =>
        /\ created.status = "returned"
        /\ created = CreateStrategy(Lower(strategy_type), kwargs)
        /\ Lower(strategy_type) = exact => created.strategy.class = "ExactMatchingStrategy"
        /\ Lower(strategy_type) = fuzzy => created.strategy.class = "FuzzyMatchingStrategy"
        /\ Lower(strategy_type) = contextual
             => created.strategy.class = "ContextualMatchingStrategy"

\* C5's case: a name not in lowercase with a threshold given, as in
\* create("FUZZY", threshold=...)
C5_Witness ==
    /\ FactoryCalled
    /\ strategy_type # Lower(strategy_type)
    /\ created.status = "returned"
    /\ created.strategy.class = "FuzzyMatchingStrategy"
    /\ "threshold" \in DOMAIN kwargs
    /\ created.strategy.threshold = kwargs["threshold"]

\* C6: for a name whose lowercase form is none of the three, whatever the
\* params, create_strategy raises the ValueError "Unknown strategy type" whose
\* message holds the name as given and the three valid names, and returns no
\* instance; for a name whose lowercase form is one of the three it does not
\* raise.
C6_UnknownNameRaises ==
    FactoryCalled =>
        /\ ~KnownName =>
            /\ created.status = "ValueError"
            /\ created.message[1] = "Unknown strategy type: "
            /\ created.message[2] = strategy_type
            /\ \A name \in {exact, fuzzy, contextual} :
                \E n \in 1..Len(created.message[4]) : created.message[4][n] = name
        /\ KnownName => created.status = "returned"

\* C6's case: an unknown name not in lowercase, with params given
C6_Witness ==
    /\ FactoryCalled
    /\ created.status = "ValueError"
    /\ strategy_type # Lower(strategy_type)
    /\ DOMAIN kwargs # {}

-----------------------------------------------------------------------------
(* Properties of the contextual result's bound and context *)

\* the input tokens are as the caller built them: the n-th has the n-th box
\* and a text of the caller's
TokensIntact ==
    \A n \in 1..Len(text_bounds) :
        /\ text_bounds[n].text \in TokenTexts
        /\ text_bounds[n] = Token(text_bounds[n].text, text_bounds[n].page, n)

\* the bound synthesized for the window of K tokens of page p's group at i
SynthesizedBound(p, i) ==
    LET g == GroupOf(p)
    IN  [text |-> WindowText(g, i, K),
         x0 |-> g[i].x0, y0 |-> g[i].y0,
         x1 |-> g[i + K - 1].x1, y1 |-> g[i + K - 1].y1,
         page |-> p]

\* C11: every contextual result for the window at i of a page group carries
\* a TextBound with the first window token's x0, y0, the last window token's
\* x1, y1, the window tokens' lowercased texts joined by single spaces, and
\* the group's page; the input tokens are not modified.
C11_SynthesizedBoundOfWindow ==
    (IsContextual /\ Called /\ K >= 1) =>
        /\ ReturnedList
        /\ TokensIntact
        /\ \A n \in 1..Len(outcome.results) :
            \E i \in 1..(Len(GroupOf(outcome.results[n].text_bound.page)) - K + 1) :
                /\ Qualifies(outcome.results[n].text_bound.page, i)
                /\ outcome.results[n].text_bound
                     = SynthesizedBound(outcome.results[n].text_bound.page, i)

\* C11's case: a two-token window with a token written in capitals, whose
\* synthesized text is lowercased and whose corners come from two tokens
C11_Witness ==
    /\ IsContextual /\ Called /\ K = 2
    /\ \E n \in 1..Len(outcome.results) :
        /\ outcome.results[n].text_bound.text = <<"a", " ", "b">>
        /\ outcome.results[n].text_bound.x1 - outcome.results[n].text_bound.x0 >= 6
    /\ \E n \in 1..Len(text_bounds) : text_bounds[n].text = <<"A">>

\* the texts of the tokens of g from lo to hi, as written, joined by spaces
TextsJoined(g, lo, hi) == Join([j \in 1..(hi - lo + 1) |-> g[lo + j - 1].text])

\* the context expected for the window of K tokens of g at i (1-based) with
\* w tokens on each side, clipped at the ends of g
ExpectedContext(g, i, w) ==
    TextsJoined(g,
                IF i - w < 1 THEN 1 ELSE i - w,
                IF i + K - 1 + w > Len(g) THEN Len(g) ELSE i + K - 1 + w)

\* C12: a contextual result at start index i of a page group has as context
\* the original-case texts of that group's tokens from max(0, i - w) up to
\* but excluding min(len(group), i + k + w), joined by single spaces.
C12_ContextClippedToGroup ==
    (IsContextual /\ Called /\ K >= 1) =>
        /\ ReturnedList
        /\ \A n \in 1..Len(outcome.results) :
            LET r == outcome.results[n]
                g == GroupOf(r.text_bound.page)
            IN  \E i \in 1..(Len(g) - K + 1) :
                    /\ g[i].x0 = r.text_bound.x0
                    /\ r.context = ExpectedContext(g, i, strategy.context_window)

\* C12's case: a context of one token on one side only, clipped at the
\* group's end and shorter than the group, with a token written in capitals
C12_Witness ==
    /\ IsContextual /\ Called /\ K = 1
    /\ strategy.context_window = 1
    /\ \E n \in 1..Len(outcome.results) :
        LET r == outcome.results[n]
            g == GroupOf(r.text_bound.page)
        IN  /\ Len(g) = 3
            /\ g[1].x0 = r.text_bound.x0
            /\ r.context = TextsJoined(g, 1, 2)
            /\ r.context # Lower(r.context)

\* the fuzzy results for the last entity and token list at the contextual
\* instance's threshold
FuzzyCounterpart ==
    FuzzyResults(FuzzyMatchingStrategy(strategy.threshold), entity, text_bounds)

\* the tokens a result list accepts, by their first corner, with confidences
Accepted(results) ==
    {<<results[n].text_bound.x0, results[n].text_bound.y0, results[n].confidence>> :
        n \in 1..Len(results)}

\* C17: for a one-word entity and equal thresholds the contextual and the
\* fuzzy match accept the same tokens with the same confidences; with all
\* tokens on one page the two lists agree pairwise in confidence, corners and
\* page, the contextual text being lowercased and a context being present.
C17_ContextualOneWordIsFuzzy ==
    (IsContextual /\ Called /\ K = 1) =>
        /\ ReturnedList
        /\ Accepted(outcome.results) = Accepted(FuzzyCounterpart)
        /\ Len(outcome.results) = Len(FuzzyCounterpart)
        /\ Cardinality(PagesPresent) <= 1 =>
            \A n \in 1..Len(outcome.results) :
                LET c == outcome.results[n]
                    f == FuzzyCounterpart[n]
                IN  /\ c.confidence = f.confidence
                    /\ c.text_bound.x0 = f.text_bound.x0
                    /\ c.text_bound.y0 = f.text_bound.y0
                    /\ c.text_bound.x1 = f.text_bound.x1
                    /\ c.text_bound.y1 = f.text_bound.y1
                    /\ c.text_bound.page = f.text_bound.page
                    /\ c.text_bound.text = Lower(f.text_bound.text)
                    /\ c.context # NoContext

\* C17's case: one page, a one-word entity, a token kept whose text is
\* written in capitals and a token dropped
C17_Witness ==
    /\ IsContextual /\ Called /\ K = 1
    /\ Cardinality(PagesPresent) = 1
    /\ Len(outcome.results) >= 1
    /\ Len(outcome.results) < Len(text_bounds)
    /\ \E n \in 1..Len(outcome.results) :
        outcome.results[n].text_bound.text # FuzzyCounterpart[n].text_bound.text

-----------------------------------------------------------------------------
(* Properties of the factory's configuration *)

\* the value the params give for key, or the default
Supplied(key, default) == IF key \in DOMAIN kwargs THEN kwargs[key] ELSE default

\* C13: create_strategy configures each variant from its own parameters:
\* fuzzy takes threshold (else 80.0) and ignores any other key; contextual
\* takes context_window (else 3) and threshold (else 70.0); exact ignores
\* every param and is created.
C13_ConfiguredFromOwnParams ==
    (FactoryCalled /\ KnownName) =>
        /\ created.status = "returned"
        /\ Lower(strategy_type) = exact =>
             created.strategy = [class |-> "ExactMatchingStrategy"]
        /\ Lower(strategy_type) = fuzzy =>
             created.strategy = [class |-> "FuzzyMatchingStrategy",
                                 threshold |-> Supplied("threshold", 80)]
        /\ Lower(strategy_type) = contextual =>
             created.strategy = [class |-> "ContextualMatchingStrategy",
                                 context_window |-> Supplied("context_window", 3),
                                 threshold |-> Supplied("threshold", 70)]

\* C13's case: a contextual strategy created with a threshold given and no
\* context_window, and a key no strategy knows
C13_Witness ==
    /\ FactoryCalled
    /\ Lower(strategy_type) = contextual
    /\ DOMAIN kwargs = {"threshold", "verbose"}
    /\ created.status = "returned"
    /\ created.strategy.context_window = 3
    /\ created.strategy.threshold = kwargs["threshold"]

\* get_all_strategies has been called
AllCalled == all_strategies # NoDict

\* the class create_strategy returns for a key of the dict
ClassOf(key) ==
    IF key = exact THEN "ExactMatchingStrategy"
    ELSE IF key = fuzzy THEN "FuzzyMatchingStrategy"
    ELSE "ContextualMatchingStrategy"

\* the dict has exactly the three keys, each an instance of its class,
\* configured as create_strategy(key, **kwargs) configures it
ThreeEntriesAsCreated ==
    /\ all_strategies.status = "returned"
    /\ DOMAIN all_strategies.strategies = {exact, fuzzy, contextual}
    /\ \A key \in {exact, fuzzy, contextual} :
        /\ all_strategies.strategies[key].class = ClassOf(key)
        /\ all_strategies.strategies[key]
            = CreateStrategy(key, [k \in DOMAIN kwargs \ {"strategy_type"} |-> kwargs[k]]).strategy

\* C14: get_all_strategies returns, for every params bag, keys unknown to
\* every strategy included, exactly the entries exact, fuzzy and contextual,
\* each an instance of its class configured as create_strategy configures it
\* from the same params, and never fails.
C14_ThreeEntriesForEveryBag == AllCalled => ThreeEntriesAsCreated

\* the same for the bags that have no key named strategy_type
C14_ThreeEntriesUnlessNameKey ==
    (AllCalled /\ "strategy_type" \notin DOMAIN kwargs) => ThreeEntriesAsCreated

\* a bag with threshold, context_window and an unknown key gave three entries,
\* the fuzzy and the contextual one sharing the threshold
C14_SharedThreshold ==
    /\ AllCalled
    /\ DOMAIN kwargs = {"threshold", "context_window", "verbose"}
    /\ all_strategies.status = "returned"
    /\ all_strategies.strategies[fuzzy].threshold = kwargs["threshold"]
    /\ all_strategies.strategies[contextual].threshold = kwargs["threshold"]

-----------------------------------------------------------------------------
(* Properties of the HTTP API *)

\* the last request was a match_entity that created its strategy
MatchMade ==
    /\ response.op = "match_entity"
    /\ response.strategy.status = "returned"

\* the strategy a match request names, lowercased
NamedStrategy == Lower(MatchRequest(response.body).strategy)

\* the request's body gives no value for the parameter
Omits(param) == param \notin DOMAIN response.body

\* the value a parameter has by the body, or by get_strategies if the body
\* omits it
GivenOrAdvertised(param, advertised) ==
    IF Omits(param) THEN advertised ELSE response.body[param]

\* the instance the request asks for, its omitted parameters as advertised
AsAdvertised ==
    IF NamedStrategy = exact THEN ExactMatchingStrategy
    ELSE IF NamedStrategy = fuzzy
    THEN FuzzyMatchingStrategy(
            GivenOrAdvertised("threshold", GetStrategies.fuzzy.threshold))
    ELSE ContextualMatchingStrategy(
            GivenOrAdvertised("context_window", GetStrategies.contextual.context_window),
            GivenOrAdvertised("threshold", GetStrategies.contextual.threshold))

\* the words of the stored file the request names
StoredWords == disk[pdf_storage[response.file_id]].words

\* C16: a match request is matched with the defaults get_strategies
\* advertises for the parameters it omits: contextual with threshold 70.0 and
\* context_window 3, fuzzy with threshold 80.0; the strategy created and the
\* matches answered are those of the advertised configuration.
C16_AdvertisedDefaultsInEffect ==
    MatchMade =>
        /\ response.strategy.strategy = AsAdvertised
        /\ response.status = 200 =>
            response.matches
                = MatchOutcome(AsAdvertised, response.body["entity"], StoredWords).results

\* the same without the threshold of contextual: a fuzzy request that omits
\* threshold is matched with 80.0, a contextual one that omits context_window
\* with context_window 3
C16_FuzzyAndWindowAsAdvertised ==
    MatchMade =>
        /\ (NamedStrategy = fuzzy /\ Omits("threshold")) =>
            response.strategy.strategy.threshold = GetStrategies.fuzzy.threshold
        /\ (NamedStrategy = contextual /\ Omits("context_window")) =>
            response.strategy.strategy.context_window
                = GetStrategies.contextual.context_window

\* a contextual request that omits threshold is matched with the threshold
\* of MatchRequest
C16_ContextualGetsRequestThreshold ==
    (MatchMade /\ NamedStrategy = contextual /\ Omits("threshold")) =>
        response.strategy.strategy.threshold = RequestThreshold

\* the keys of pdf_storage before and after a request
KeysBefore == DOMAIN pdf_storage
KeysAfter == DOMAIN pdf_storage'

\* the request just answered names a file_id
OnFileId == response'.op \in {"extract_text", "match_entity", "cleanup_pdf"}

\* a request on a file_id that is not a key answers 404 and changes nothing
UnknownIdIs404 ==
    (OnFileId /\ response'.file_id \notin KeysBefore) =>
        /\ response'.status = 404
        /\ pdf_storage' = pdf_storage

\* extract_text and match_entity leave pdf_storage as it is, whatever they answer
ReadsKeepStorage ==
    response'.op \in {"extract_text", "match_entity"} => pdf_storage' = pdf_storage

\* the match request just answered is on a key and names no known strategy
UnknownStrategyOnKey ==
    /\ response'.op = "match_entity"
    /\ response'.file_id \in KeysBefore
    /\ Lower(MatchRequest(response'.body).strategy) \notin {exact, fuzzy, contextual}

\* an upload adds the file_id it returns, and nothing when it fails; one whose
\* filename does not end in ".pdf" answers 400
UploadAddsItsKey ==
    response'.op = "upload_pdf" =>
        /\ ~EndsWith(response'.filename, DotPdf) => response'.status = 400
        /\ response'.status = 200 =>
            /\ response'.file_id \notin KeysBefore
            /\ KeysAfter = KeysBefore \cup {response'.file_id}
        /\ response'.status # 200 => pdf_storage' = pdf_storage

\* a successful cleanup removes its key, and a failed one nothing
CleanupRemovesItsKey ==
    response'.op = "cleanup_pdf" =>
        /\ response'.status = 200 =>
            /\ response'.file_id \in KeysBefore
            /\ KeysAfter = KeysBefore \ {response'.file_id}
        /\ response'.status # 200 => pdf_storage' = pdf_storage

\* the statement of C18 as given: an unrecognized strategy name on a key
\* answers 400, and a file_id once cleaned up answers 404 ever after
C18_AsStated ==
    [][/\ UnknownIdIs404
       /\ ReadsKeepStorage
       /\ UnknownStrategyOnKey => response'.status = 400
       /\ UploadAddsItsKey
       /\ CleanupRemovesItsKey
       /\ (OnFileId /\ response'.file_id \in cleaned) => response'.status = 404]_vars

\* as given for the strategy name, and a cleaned file_id answers 404 until an
\* upload returns it again
C18_Answers400OnAnyFile ==
    [][/\ UnknownStrategyOnKey => response'.status = 400
       /\ (OnFileId /\ response'.file_id \in cleaned \ KeysBefore)
            => response'.status = 404]_vars

\* as given for cleaned file_ids, and an unrecognized strategy name answers
\* 400 on a file that reads as a PDF
C18_CleanedIs404ForEver ==
    [][/\ (UnknownStrategyOnKey /\ disk[pdf_storage[response'.file_id]].pdf)
            => response'.status = 400
       /\ (OnFileId /\ response'.file_id \in cleaned) => response'.status = 404]_vars

\* C18: over any sequence of upload_pdf, extract_text, match_entity and
\* cleanup_pdf requests a file_id is a key of pdf_storage exactly from a
\* successful upload that returned it until the next successful cleanup_pdf
\* of it: requests on a file_id that is not a key answer 404 and change
\* nothing, extract_text and match_entity never add or remove a key (a match
\* with an unrecognized strategy name answers 400 when the stored file reads
\* as a PDF and 500 when it does not), an upload whose filename does not end
\* in ".pdf" answers 400 and adds no key, and after a successful cleanup_pdf
\* requests on that file_id answer 404 until an upload returns it again.
C18_KeyFromUploadToCleanup ==
    [][/\ UnknownIdIs404
       /\ ReadsKeepStorage
       /\ UnknownStrategyOnKey =>
            response'.status
                = IF disk[pdf_storage[response'.file_id]].pdf THEN 400 ELSE 500
       /\ UploadAddsItsKey
       /\ CleanupRemovesItsKey
       /\ (OnFileId /\ response'.file_id \in cleaned \ KeysBefore)
            => response'.status = 404]_vars

\* a file_id was uploaded and cleaned up, a later match on it answered 404,
\* and another file_id is still a key
C18_Witness ==
    /\ response.op = "match_entity"
    /\ response.status = 404
    /\ response.file_id \in cleaned
    /\ pdf_storage # <<>>

-----------------------------------------------------------------------------
(* Properties of match calls on a shared instance *)

\* what a call that has left match gave its caller
FrameOutcome(c) ==
    IF c.pc = "returned" THEN Returned(c.results) ELSE Raised

\* call c has left match with what match gives on the same arguments when it
\* runs alone on the instance
AsAlone(c) ==
    calls[c].pc # "running" =>
        FrameOutcome(calls[c])
            = MatchOutcome(strategy, calls[c].entity, calls[c].given)

\* C15: a match call writes neither the instance's configuration nor its
\* token list; in every interleaving of match calls on one shared instance,
\* each with its own entity and token list, every call returns what it
\* returns when run alone.
C15_InterleavedAsAlone ==
    /\ [](\A c \in DOMAIN calls :
            /\ calls[c].text_bounds = calls[c].given
            /\ AsAlone(c))
    /\ [][strategy' = strategy]_vars

\* two calls with different entities and token lists have interleaved on one
\* instance, and both have returned matches
C15_Witness ==
    /\ Len(calls) = 2
    /\ \A c \in DOMAIN calls :
        /\ calls[c].pc = "returned"
        /\ calls[c].met
        /\ calls[c].results # <<>>
    /\ calls[1].entity # calls[2].entity
    /\ calls[1].given # calls[2].given

====
